---- MODULE Spec2Model ----
(***************************************************************************)
(* State-machine model of the App component of src/src/App.tsx: the five   *)
(* useState cells, the two mount effects (resize listener, one-shot        *)
(* fetch), the page-change handler and the derived pagination values.      *)
(***************************************************************************)
EXTENDS Integers, Sequences, FiniteSets

VARIABLES
    posts,        \* useState<Post[]>([])      : sequence of post ids
    loading,      \* useState(true)
    error,        \* useState<string|null>(null)
    currentPage,  \* useState(1)
    isMobile,     \* useState(false)
    phase,        \* "created" | "mounted" | "unmounted"
    fetchState,   \* position of the async fetchPosts: idle/pending/parsing/ok/httpError/failed
    data,         \* the parsed response body (ids in response order) once it exists
    effect,       \* side effect requested by the last handler: "none" | "scrollTo"
    navHistory    \* history: "fresh" | "navigated" | "resized" (resize after a navigation)

vars == <<posts, loading, error, currentPage, isMobile, phase, fetchState,
          data, effect, navHistory>>

----------------------------------------------------------------------------
\* Bounds of the model
MaxExtra == 2          \* records a response may carry beyond the cap
ExampleLen == 150      \* the oversized response of the spec's example
ArgSlack == 2          \* how far outside 1..MaxPages a page argument may lie

\* Program constants
PostCap == 100
MobilePerPage == 4
DesktopPerPage == 8
MobileVisible == 3
DesktopVisible == 5
Breakpoint == 768

Null == "null"
FailMsg == "Failed to fetch posts"
FallbackMsg == "An error occurred"
UnderlyingMsg == "NetworkError"

Widths == {Breakpoint - 1, Breakpoint, Breakpoint + 1}
RespLens == (0 .. (PostCap + MaxExtra)) \cup {ExampleLen}
\* err.message of a caught Error (possibly empty), or the fallback text
ErrMsgs == {UnderlyingMsg, "", FallbackMsg}

Min(a, b) == IF a < b THEN a ELSE b
Max(a, b) == IF a > b THEN a ELSE b
CeilDiv(a, b) == (a + b - 1) \div b
Range(s) == {s[i] : i \in 1 .. Len(s)}

MaxPages == CeilDiv(PostCap, MobilePerPage)
PageArgs == (1 - ArgSlack) .. (MaxPages + ArgSlack)

\* A response body of k records; the ids come ascending or descending.
Response(k, desc) == [i \in 1 .. k |-> IF desc THEN k + 1 - i ELSE i]

----------------------------------------------------------------------------
\* Pure helpers

\* window.innerWidth <= 768
Narrow(w) == w <= Breakpoint

\* isMobile ? 4 : 8
PerPage(mobile) == IF mobile THEN MobilePerPage ELSE DesktopPerPage

\* isMobile ? 3 : 5
MaxVisible(mobile) == IF mobile THEN MobileVisible ELSE DesktopVisible

\* Math.ceil(posts.length / postsPerPage)
PageCount(n, perPage) == CeilDiv(n, perPage)

\* Variant: the body is stored whole, without the slice.
FirstPostsUncapped(d) == d

\* data.slice(0, 100)
FirstPosts(d) == SubSeq(d, 1, Min(PostCap, Len(d)))

\* Variant: the slice ends one element early.
PageSliceShort(ps, page, perPage) ==
    LET start == (page - 1) * perPage
        stop  == Min(Len(ps), start + perPage - 1)
    IN  IF start >= stop THEN << >> ELSE SubSeq(ps, start + 1, stop)

\* posts.slice(startIndex, startIndex + postsPerPage), startIndex = (page-1)*perPage
PageSlice(ps, page, perPage) ==
    LET start == (page - 1) * perPage
        stop  == Min(Len(ps), start + perPage)
    IN  IF start >= Len(ps) THEN << >> ELSE SubSeq(ps, start + 1, stop)

\* Variant: the window is not slid left when it comes out short.
PageNumbersNoSlide(cp, tp, mobile) ==
    LET maxVisiblePages == MaxVisible(mobile)
        startPage == Max(1, cp - (maxVisiblePages \div 2))
        endPage   == Min(tp, startPage + maxVisiblePages - 1)
    IN  [i \in 1 .. (endPage - startPage + 1) |-> startPage + i - 1]

\* Variant: endPage is not clamped to totalPages.
PageNumbersNoClamp(cp, tp, mobile) ==
    LET maxVisiblePages == MaxVisible(mobile)
        startPage == Max(1, cp - (maxVisiblePages \div 2))
        endPage   == startPage + maxVisiblePages - 1
    IN  [i \in 1 .. (endPage - startPage + 1) |-> startPage + i - 1]

\* getPageNumbers
PageNumbers(cp, tp, mobile) ==
    LET maxVisiblePages == MaxVisible(mobile)
        start0  == Max(1, cp - (maxVisiblePages \div 2))
        endPage == Min(tp, start0 + maxVisiblePages - 1)
        startPage == IF endPage - start0 + 1 < maxVisiblePages
                     THEN Max(1, endPage - maxVisiblePages + 1)
                     ELSE start0
    IN  [i \in 1 .. (endPage - startPage + 1) |-> startPage + i - 1]

----------------------------------------------------------------------------
\* Values derived on each render
postsPerPage == PerPage(isMobile)
totalPages == PageCount(Len(posts), postsPerPage)
startIndex == (currentPage - 1) * postsPerPage
currentPosts == PageSlice(posts, currentPage, postsPerPage)
getPageNumbers == PageNumbers(currentPage, totalPages, isMobile)

\* if (loading) spinner; else if (error) error view; else grid
RenderView ==
    IF loading THEN "loading"
    ELSE IF error # Null /\ error # "" THEN "error"
    ELSE "grid"

\* {!error && totalPages > 1 && (...pagination...)}
PaginationShown ==
    /\ RenderView = "grid"
    /\ totalPages > 1

----------------------------------------------------------------------------
Init ==
    /\ posts = << >>
    /\ loading = TRUE
    /\ error = Null
    /\ currentPage = 1
    /\ isMobile = FALSE
    /\ phase = "created"
    /\ fetchState = "idle"
    /\ data = << >>
    /\ effect = "none"
    /\ navHistory = "fresh"

\* All setter calls of one synchronous run become visible together.
Commit(p, l, e) ==
    /\ posts' = p
    /\ loading' = l
    /\ error' = e

\* checkMobile: setIsMobile(window.innerWidth <= 768)
checkMobile(w) == isMobile' = Narrow(w)

\* Both mount effects: checkMobile() + addEventListener; fetchPosts() up to its first await
Mount(w) ==
    /\ phase = "created"
    /\ phase' = "mounted"
    /\ checkMobile(w)
    /\ Commit(posts, TRUE, error)
    /\ fetchState' = "pending"
    /\ effect' = "none"
    /\ UNCHANGED <<currentPage, data, navHistory>>

\* Variant: the listener also clamps currentPage to the new page count.
ResizeClamps(w) ==
    /\ phase = "mounted"
    /\ checkMobile(w)
    /\ currentPage' = Max(1, Min(currentPage, PageCount(Len(posts), PerPage(Narrow(w)))))
    /\ effect' = "none"
    /\ navHistory' = IF navHistory = "fresh" THEN "fresh" ELSE "resized"
    /\ UNCHANGED <<posts, loading, error, phase, fetchState, data>>

\* The resize listener, attached while mounted
Resize(w) ==
    /\ phase = "mounted"
    /\ checkMobile(w)
    /\ effect' = "none"
    /\ navHistory' = IF navHistory = "fresh" THEN "fresh" ELSE "resized"
    /\ UNCHANGED <<posts, loading, error, currentPage, phase, fetchState, data>>

\* Effect cleanup: removeEventListener; the fetch effect has no cleanup
Unmount ==
    /\ phase = "mounted"
    /\ phase' = "unmounted"
    /\ effect' = "none"
    /\ UNCHANGED <<posts, loading, error, currentPage, isMobile, fetchState, data, navHistory>>

\* fetch() resolves with response.ok: continue to await response.json()
ResponseOk ==
    /\ fetchState = "pending"
    /\ fetchState' = "parsing"
    /\ effect' = "none"
    /\ UNCHANGED <<posts, loading, error, currentPage, isMobile, phase, data, navHistory>>

\* Variant: the finally block is missing, loading is never cleared on failure.
FailNoFinally(msg, st) ==
    /\ Commit(posts, loading, msg)
    /\ fetchState' = st
    /\ effect' = "none"
    /\ UNCHANGED <<currentPage, isMobile, phase, data, navHistory>>

\* catch: setError(message); finally: setLoading(false)
Fail(msg, st) ==
    /\ Commit(posts, FALSE, msg)
    /\ fetchState' = st
    /\ effect' = "none"
    /\ UNCHANGED <<currentPage, isMobile, phase, data, navHistory>>

\* Variant: what is thrown is not an Error, so the fallback text is shown.
ResponseNotOkFallback ==
    /\ fetchState = "pending"
    /\ Fail(FallbackMsg, "httpError")

\* fetch() resolves with !response.ok: throw new Error("Failed to fetch posts")
ResponseNotOk ==
    /\ fetchState = "pending"
    /\ Fail(FailMsg, "httpError")

\* fetch() rejects (transport failure)
FetchRejects(msg) ==
    /\ fetchState = "pending"
    /\ Fail(msg, "failed")

\* response.json() rejects, or the body has no slice (parse failure)
JsonRejects(msg) ==
    /\ fetchState = "parsing"
    /\ Fail(msg, "failed")

\* response.json() resolves: setPosts(data.slice(0, 100)); finally: setLoading(false)
JsonResolves(d) ==
    /\ fetchState = "parsing"
    /\ data' = d
    /\ Commit(FirstPosts(d), FALSE, error)
    /\ fetchState' = "ok"
    /\ effect' = "none"
    /\ UNCHANGED <<currentPage, isMobile, phase, navHistory>>

\* Variant: the upper bound of the guard is off by one.
handlePageChangeOffByOne(page) ==
    /\ phase = "mounted"
    /\ IF page >= 1 /\ page <= totalPages + 1
       THEN /\ currentPage' = page
            /\ effect' = "scrollTo"
            /\ navHistory' = "navigated"
       ELSE /\ effect' = "none"
            /\ UNCHANGED <<currentPage, navHistory>>
    /\ UNCHANGED <<posts, loading, error, isMobile, phase, fetchState, data>>

\* Variant: the lower bound of the guard is missing.
handlePageChangeNoLowerBound(page) ==
    /\ phase = "mounted"
    /\ IF page <= totalPages
       THEN /\ currentPage' = page
            /\ effect' = "scrollTo"
            /\ navHistory' = "navigated"
       ELSE /\ effect' = "none"
            /\ UNCHANGED <<currentPage, navHistory>>
    /\ UNCHANGED <<posts, loading, error, isMobile, phase, fetchState, data>>

\* handlePageChange(page)
handlePageChange(page) ==
    /\ phase = "mounted"
    /\ IF page >= 1 /\ page <= totalPages
       THEN /\ currentPage' = page
            /\ effect' = "scrollTo"
            /\ navHistory' = "navigated"
       ELSE /\ effect' = "none"
            /\ UNCHANGED <<currentPage, navHistory>>
    /\ UNCHANGED <<posts, loading, error, isMobile, phase, fetchState, data>>

\* goToPage called directly with any argument
GoToPage(n) == handlePageChange(n)

\* Previous button: onClick handlePageChange(currentPage - 1), disabled on page 1
ClickPrevious ==
    /\ PaginationShown
    /\ currentPage # 1
    /\ handlePageChange(currentPage - 1)

\* Next button: onClick handlePageChange(currentPage + 1), disabled on the last page
ClickNext ==
    /\ PaginationShown
    /\ currentPage # totalPages
    /\ handlePageChange(currentPage + 1)

\* A numbered button of getPageNumbers(): onClick handlePageChange(page)
ClickPage(page) ==
    /\ PaginationShown
    /\ page \in Range(getPageNumbers)
    /\ handlePageChange(page)

Next ==
    \/ \E w \in Widths : Mount(w)
    \/ \E w \in Widths : Resize(w)
    \/ Unmount
    \/ ResponseOk
    \/ ResponseNotOk
    \/ \E m \in ErrMsgs : FetchRejects(m)
    \/ \E m \in ErrMsgs : JsonRejects(m)
    \/ \E k \in RespLens, desc \in BOOLEAN : JsonResolves(Response(k, desc))
    \/ \E n \in PageArgs : GoToPage(n)
    \/ ClickPrevious
    \/ ClickNext
    \/ \E p \in 1 .. MaxPages : ClickPage(p)

Spec == Init /\ [][Next]_vars

TypeOK ==
    /\ loading \in BOOLEAN
    /\ isMobile \in BOOLEAN
    /\ currentPage \in Nat
    /\ phase \in {"created", "mounted", "unmounted"}
    /\ fetchState \in {"idle", "pending", "parsing", "ok", "httpError", "failed"}
    /\ effect \in {"none", "scrollTo"}
    /\ navHistory \in {"fresh", "navigated", "resized"}

----------------------------------------------------------------------------
InRange(page, tp) == page >= 1 /\ page <= tp
Contiguous(pn) == \A i \in 1 .. (Len(pn) - 1) : pn[i + 1] = pn[i] + 1
Settled == fetchState \in {"ok", "httpError", "failed"}

\* C1 (as stated): whenever totalPages >= 1, currentPage lies in [1, totalPages].
C1_CurrentPageInRange ==
    totalPages >= 1 => InRange(currentPage, totalPages)

\* C1 (amended): currentPage >= 1 always; with posts present it never exceeds the
\* narrow page count ceil(posts.length / 4); and it lies in [1, totalPages] in every
\* state where the viewport is narrow or no resize has happened since the last
\* accepted goToPage.
C1_CurrentPageBounded ==
    /\ currentPage >= 1
    /\ Len(posts) >= 1 => currentPage <= PageCount(Len(posts), MobilePerPage)
    /\ (totalPages >= 1 /\ (isMobile \/ navHistory # "resized"))
          => InRange(currentPage, totalPages)

C1_Witness ==
    /\ navHistory = "resized"
    /\ isMobile
    /\ totalPages > DesktopVisible
    /\ currentPage = totalPages

\* C2: goToPage(n) with n outside [1, totalPages] changes no state and requests no
\* scroll; with n inside it sets currentPage = n, requests the scroll and changes
\* no other state.
C2_GoToPageFrame ==
    [][\A n \in PageArgs : GoToPage(n) =>
          IF InRange(n, totalPages)
          THEN /\ currentPage' = n
               /\ effect' = "scrollTo"
               /\ UNCHANGED <<posts, loading, error, isMobile>>
          ELSE /\ effect' = "none"
               /\ UNCHANGED <<currentPage, posts, loading, error, isMobile>>]_vars

C2_Witness ==
    /\ effect = "scrollTo"
    /\ totalPages > 1
    /\ currentPage = totalPages

\* The properties of getPageNumbers() that do not mention currentPage, and the
\* three worked examples for totalPages = 10 with five visible buttons.
PageNumbersShape ==
    LET pn == getPageNumbers
    IN  /\ Len(pn) = Min(MaxVisible(isMobile), totalPages)
        /\ Contiguous(pn)
        /\ (totalPages = 10 /\ ~isMobile /\ currentPage = 1) => pn = <<1, 2, 3, 4, 5>>
        /\ (totalPages = 10 /\ ~isMobile /\ currentPage = 5) => pn = <<3, 4, 5, 6, 7>>
        /\ (totalPages = 10 /\ ~isMobile /\ currentPage = 10) => pn = <<6, 7, 8, 9, 10>>

\* C3 (as stated): with totalPages >= 1, getPageNumbers() is a strictly ascending
\* contiguous run of length min(maxVisiblePages, totalPages) containing currentPage.
C3_PageNumbersContainCurrent ==
    totalPages >= 1 =>
        /\ PageNumbersShape
        /\ currentPage \in Range(getPageNumbers)

\* C3 (amended): with totalPages >= 1, getPageNumbers() is a strictly ascending
\* contiguous run of length min(maxVisiblePages, totalPages); it contains
\* currentPage whenever currentPage <= totalPages.
C3_PageNumbersWindow ==
    totalPages >= 1 =>
        /\ PageNumbersShape
        /\ currentPage <= totalPages => currentPage \in Range(getPageNumbers)

C3_Witness ==
    /\ totalPages = 10
    /\ ~isMobile
    /\ currentPage = 10
    /\ getPageNumbers = <<6, 7, 8, 9, 10>>

\* Concatenation of the page slices 1..n of ps.
RECURSIVE ConcatPages(_, _, _)
ConcatPages(ps, perPage, n) ==
    IF n = 0 THEN << >>
    ELSE ConcatPages(ps, perPage, n - 1) \o PageSlice(ps, n, perPage)

\* C4: for a non-empty posts list and each page size in {4, 8}, the slices of pages
\* 1..totalPages partition the list: pairwise disjoint, concatenating to posts in
\* page order, lengths summing to posts.length, each non-empty and at most one
\* page long.
C4_SlicesPartition ==
    Len(posts) >= 1 =>
        \A perPage \in {MobilePerPage, DesktopPerPage} :
            LET tp == PageCount(Len(posts), perPage)
                sl(p) == PageSlice(posts, p, perPage)
            IN  /\ ConcatPages(posts, perPage, tp) = posts
                /\ \A p \in 1 .. tp : Len(sl(p)) >= 1 /\ Len(sl(p)) <= perPage
                /\ \A p, q \in 1 .. tp :
                      p < q => Range(sl(p)) \cap Range(sl(q)) = {}
                /\ Cardinality(UNION {Range(sl(p)) : p \in 1 .. tp}) = Len(posts)

C4_Witness ==
    /\ Len(posts) = 13
    /\ PageSlice(posts, 4, MobilePerPage) = <<posts[13]>>
    /\ Len(PageSlice(posts, 2, DesktopPerPage)) = 5

\* C5: once the fetch has ended with a non-success status, error is the fixed
\* message, loading is false, posts is empty and the error view is rendered (no
\* grid, no pagination), whatever resize or goToPage events follow.
C5_HttpErrorState ==
    fetchState = "httpError" =>
        /\ error = FailMsg
        /\ loading = FALSE
        /\ posts = << >>
        /\ RenderView = "error"
        /\ ~PaginationShown

C5_Witness ==
    /\ fetchState = "httpError"
    /\ phase = "mounted"
    /\ isMobile
    /\ error = FailMsg

\* C6: posts never holds more than 100 records; after a successful fetch it is
\* exactly the first min(100, k) records of the k-record response, in response
\* order, and it is never modified afterwards.
C6_FirstHundred ==
    /\ [](/\ Len(posts) <= PostCap
          /\ fetchState # "ok" => posts = << >>
          /\ fetchState = "ok" =>
                /\ Len(posts) = Min(PostCap, Len(data))
                /\ \A i \in 1 .. Len(posts) : posts[i] = data[i])
    /\ [][fetchState = "ok" => posts' = posts]_vars

C6_Witness ==
    /\ fetchState = "ok"
    /\ Len(data) = ExampleLen
    /\ Len(posts) = PostCap
    /\ posts[1] = ExampleLen
    /\ posts[PostCap] = data[PostCap]

\* C7: after unmount no state update reaches the component: posts, loading and
\* error never change, and no resize changes isMobile.
C7_NoUpdateAfterUnmount ==
    [][phase = "unmounted" => UNCHANGED <<posts, loading, error, isMobile>>]_vars

\* C8: a resize event changes only isMobile; currentPage, posts, loading and error
\* keep their values and currentPage is not clamped to the new totalPages (13
\* posts on page 2: wide -> narrow takes totalPages from 2 to 4, currentPage stays 2).
C8_ResizeFrame ==
    [][/\ ((\E w \in Widths : Resize(w)) \/ (phase = "mounted" /\ isMobile' # isMobile))
            => UNCHANGED <<currentPage, posts, loading, error>>
       /\ (Len(posts) = 13 /\ currentPage = 2 /\ ~isMobile /\ isMobile')
            => (totalPages = 2 /\ totalPages' = 4 /\ currentPage' = 2)]_vars

C8_Witness ==
    /\ Len(posts) = 13
    /\ currentPage = 2
    /\ navHistory = "resized"
    /\ ~isMobile
    /\ currentPage > totalPages - 1

StalePageState ==
    /\ currentPage > totalPages =>
          /\ currentPosts = << >>
          /\ \A p \in Range(getPageNumbers) : InRange(p, totalPages)
    /\ PaginationShown => \A p \in Range(getPageNumbers) : InRange(p, totalPages)

NumberedClickAccepted ==
    \A p \in 1 .. MaxPages :
        ClickPage(p) => (currentPage' = p /\ InRange(currentPage', totalPages'))

\* C10 (as stated): a state with currentPage > totalPages is reached only through
\* a resize after navigation; in it the slice is empty and every page number shown
\* lies in [1, totalPages], so a click on a numbered button is accepted and brings
\* currentPage back into range.
C10_StaleOnlyByResize ==
    /\ [](StalePageState /\ (currentPage > totalPages => navHistory = "resized"))
    /\ [][NumberedClickAccepted]_vars

\* C10 (amended): a state with currentPage > totalPages >= 1 is reached only
\* through a resize after navigation (with totalPages = 0 it exists from
\* construction on, currentPage being 1); the rest as stated.
C10_StalePage ==
    /\ [](StalePageState
          /\ ((currentPage > totalPages /\ totalPages >= 1) => navHistory = "resized"))
    /\ [][NumberedClickAccepted]_vars

C10_Witness ==
    /\ PaginationShown
    /\ currentPage > totalPages
    /\ currentPosts = << >>
    /\ Len(getPageNumbers) = DesktopVisible
====
